---- MODULE Spec2Model ----
(***************************************************************************)
(* Model of package fs (kr/fs): the Walker of walk.go, a pull iterator     *)
(* over filepath.Walk.  A producer goroutine runs filepath.Walk with the   *)
(* callback Walker.recv; the caller drives it with Step, SkipDir and Stop. *)
(* The two goroutines share only the channels itemch (unbuffered) and      *)
(* retch (buffered, capacity 1).                                           *)
(*                                                                         *)
(* A path is a sequence of names: <<0>> is the root argument of Walk,      *)
(* <<0, 1>> its child named 1.  The empty sequence is the empty string,    *)
(* the path of the zero item.  Names are numbers; lexical order is <.      *)
(*                                                                         *)
(* Spec is the Walker with every call of its interface; NoStopSpec is the  *)
(* Walker driven by Step and SkipDir only, its goroutines scheduled        *)
(* fairly; JoinSpec is one call of Join of filesystem.go, a path there     *)
(* being the sequence of its characters.                                   *)
(***************************************************************************)
EXTENDS Naturals, Sequences, FiniteSets

\* ---------------------------------------------------------------- bounds
\* Most nodes below the root in a filesystem handed to Walk.
MaxNodes == 3
\* Most calls of Stop in one run.
MaxStops == 2
\* Most elements in an argument list of Join.
MaxElems == 3
\* Most characters in one element.
MaxElemLen == 2

\* make(chan error, 1): the capacity of retch.
RetchCap == 1

\* ------------------------------------------------------------ filesystems
Root == <<0>>
Names == {1, 2}

NilErr == "nil"
SkipDirErr == "SkipDir"
StopErr == "stop"
NodeErr == "err"
NilInfo == "nilinfo"

\* The zero value of item: what a receive from the closed itemch yields.
ZeroItem == [path |-> <<>>, info |-> NilInfo, err |-> NilErr]

\* The prefix-closed sets of paths with at most n nodes below the root.
RECURSIVE ShapesOf(_)
ShapesOf(n) ==
  IF n = 0 THEN {{Root}}
  ELSE LET prev == ShapesOf(n - 1)
       IN  prev \cup UNION {{s \cup {Append(p, a)} : p \in s, a \in Names} : s \in prev}

HasChild(s, p) == \E a \in Names : Append(p, a) \in s

\* Every node is a file or a directory; only a directory has children.
KindsOf(s) ==
  {k \in [s -> {"file", "dir"}] : \A p \in s : HasChild(s, p) => k[p] = "dir"}

\* At most one node fails: its lstat fails, or it is a directory whose
\* listing fails.  A failing directory may hold children.
FailsOf(k) ==
  {[lstatFail |-> {}, readFail |-> {}]}
    \cup {[lstatFail |-> {p}, readFail |-> {}] : p \in DOMAIN k}
    \cup {[lstatFail |-> {}, readFail |-> {p}] : p \in {q \in DOMAIN k : k[q] = "dir"}}

FileSystems ==
  UNION {UNION {{[kind |-> k, lstatFail |-> f.lstatFail, readFail |-> f.readFail]
                  : f \in FailsOf(k)} : k \in KindsOf(s)} : s \in ShapesOf(MaxNodes)}

VARIABLES
  fsys,       \* the filesystem below the root argument of Walk
  retch,      \* Walker.retch: the buffered directive channel
  closed,     \* whether itemch has been closed
  cur,        \* Walker.cur
  ok,         \* Walker.ok
  ret,        \* Walker.ret
  cpc,        \* where the caller is: "idle", in Step at "send" or "recv", "panic"
  ppc,        \* where the producer is: "start", "send", "wait", "close", "done"
  pitem,      \* the item the producer is sending or has just sent
  stack,      \* the frames of filepath's recursive walk: directory, names left
  delivered,  \* history: the paths of the items Step has returned true for
  held,       \* history: the last item Step returned true for
  stops,      \* history: the number of calls of Stop
  stepStops,  \* history: stops when the last Step call started
  prevPath,   \* history: cur.path when the last Step call started
  lastSent,   \* history: what the last Step call sent on retch ("none": nothing)
  lastRes,    \* history: the result of the last Step call that returned
  everFalse,  \* history: whether a Step call has returned false
  asked,      \* history: the directory SkipDir was called on since Step returned
  skipFor,    \* history: asked when the last Step call started
  skips,      \* history: every directory a Step call started with SkipDir asked
  dropped,    \* history: the number of Stop calls that found retch full
  falseAgain, \* history: whether Step has returned false more than once
  taken,      \* history: the directives recv has received, with their entries
  closes,     \* history: the number of times itemch has been closed
  lastCtl,    \* history: the last of SkipDir and Stop called since Step returned
  ctlStop,    \* history: whether Stop was called since Step returned
  stopMark,   \* history: the producer's entry and the deliveries at the first Stop
  concStop,   \* history: whether Stop was called while a Step was in flight
  elem,       \* the argument list of a call of Join
  joined,     \* the path the call of Join returned
  jpc,        \* where the call of Join is: "idle", "call", "done"
  pathsep     \* what PathSeparator of the FileSystem handed to Join returns

vars == <<fsys, retch, closed, cur, ok, ret, cpc, ppc, pitem, stack,
          delivered, held, stops, stepStops, prevPath, lastSent, lastRes,
          everFalse, asked, skipFor, skips, dropped, falseAgain,
          taken, closes, lastCtl, ctlStop, stopMark, concStop,
          elem, joined, jpc, pathsep>>

walkerVars == <<cur, ok, ret>>
producerVars == <<ppc, pitem, stack>>
historyVars == <<delivered, held, stops, stepStops, prevPath, lastSent, lastRes,
                 everFalse, asked, skipFor, skips, dropped, falseAgain,
                 taken, closes, lastCtl, ctlStop, stopMark, concStop>>
joinVars == <<elem, joined, jpc, pathsep>>

\* ------------------------------------------- the filesystem, as Go reads it
\* os.Lstat: the node's info, or no info and an error.
Lstat(fs, p) ==
  IF p \in fs.lstatFail THEN [info |-> NilInfo, err |-> NodeErr]
  ELSE [info |-> fs.kind[p], err |-> NilErr]

\* File.Readdirnames: the names in a directory, in no order.
Readdirnames(fs, p) == {a \in Names : Append(p, a) \in DOMAIN fs.kind}

\* Mutant of SortStrings: the names in descending order.
RECURSIVE SortStringsDescending(_)
SortStringsDescending(S) ==
  IF S = {} THEN <<>>
  ELSE LET m == CHOOSE a \in S : \A b \in S : a >= b
       IN  <<m>> \o SortStringsDescending(S \ {m})

\* sort.Strings: the names in ascending order.
RECURSIVE SortStrings(_)
SortStrings(S) ==
  IF S = {} THEN <<>>
  ELSE LET m == CHOOSE a \in S : \A b \in S : a <= b
       IN  <<m>> \o SortStrings(S \ {m})

\* filepath's readDirNames: the sorted names, or an error.
readDirNames(fs, p) ==
  IF p \in fs.readFail THEN [names |-> <<>>, err |-> NodeErr]
  ELSE [names |-> SortStrings(Readdirnames(fs, p)), err |-> NilErr]

\* --------------------------------------------------------- filepath.Walk
\* The traversal Walk hands w.recv to is Go's path/filepath.Walk: the root is
\* lstat'ed; a directory's names are read and sorted before the callback is
\* called for the directory; the callback's error ends the walk, except
\* SkipDir, which only keeps the walk out of the directory it was returned for
\* (returned for a file, out of the rest of the file's directory).
\* The arguments filepath.Walk calls the callback with at the node path:
\* no info and the error when its lstat failed, else its info and, for a
\* directory, the error of reading it.
WalkItem(fs, path) ==
  LET st == Lstat(fs, path)
  IN  IF st.err # NilErr THEN [path |-> path, info |-> NilInfo, err |-> st.err]
      ELSE IF st.info # "dir" THEN [path |-> path, info |-> st.info, err |-> NilErr]
      ELSE [path |-> path, info |-> st.info, err |-> readDirNames(fs, path).err]

Pop(stk) == SubSeq(stk, 1, Len(stk) - 1)

\* The loop over a directory's names goes on: the next name is visited, or
\* with no name left the walk of that directory returns nil to the loop
\* above it.  With no frame left Walk itself returns.
RECURSIVE Resume(_, _)
Resume(fs, stk) ==
  IF stk = <<>> THEN [pc |-> "close", item |-> ZeroItem, stack |-> <<>>]
  ELSE LET top == stk[Len(stk)]
       IN  IF top.names = <<>> THEN Resume(fs, Pop(stk))
           ELSE [pc |-> "send",
                 item |-> WalkItem(fs, Append(top.dir, Head(top.names))),
                 stack |-> [stk EXCEPT ![Len(stk)].names = Tail(top.names)]]

\* The visit of a child returned e to the loop of the top frame: nil goes
\* on, SkipDir from a directory (or from a node whose lstat failed) goes on,
\* anything else is returned by the walk of the directory itself.
RECURSIVE Return(_, _, _, _)
Return(fs, stk, e, swallowSkip) ==
  IF stk = <<>> THEN [pc |-> "close", item |-> ZeroItem, stack |-> <<>>]
  ELSE IF e = NilErr THEN Resume(fs, stk)
  ELSE IF swallowSkip /\ e = SkipDirErr THEN Resume(fs, stk)
  ELSE Return(fs, Pop(stk), e, TRUE)

\* What the walk does once the callback has returned e for the item it.
AfterDirective(fs, it, stk, e) ==
  IF it.info = NilInfo THEN Return(fs, stk, e, TRUE)
  ELSE IF it.info # "dir" THEN Return(fs, stk, e, FALSE)
  ELSE IF it.err # NilErr \/ e # NilErr THEN Return(fs, stk, e, TRUE)
  ELSE Resume(fs, Append(stk, [dir |-> it.path,
                               names |-> readDirNames(fs, it.path).names]))

\* ------------------------------------------------------------------ Join
\* A string is the sequence of its characters.  Separator is the
\* os.PathSeparator that path/filepath works with; a FileSystem may name
\* another separator of its own.
Separator == "/"
Chars == {"a", ".", Separator}
PathSeparators == {Separator, ":"}

RECURSIVE StringsUpTo(_)
StringsUpTo(n) ==
  IF n = 0 THEN {<<>>}
  ELSE LET prev == StringsUpTo(n - 1)
       IN  prev \cup {Append(x, c) : x \in prev, c \in Chars}

RECURSIVE ListsUpTo(_, _)
ListsUpTo(S, n) ==
  IF n = 0 THEN {<<>>}
  ELSE LET prev == ListsUpTo(S, n - 1)
       IN  prev \cup {Append(l, e) : l \in prev, e \in S}

ElemLists == ListsUpTo(StringsUpTo(MaxElemLen), MaxElems)

\* strings.Join: the elements with sep between each two of them.
RECURSIVE StringsJoin(_, _)
StringsJoin(elems, sep) ==
  IF elems = <<>> THEN <<>>
  ELSE IF Len(elems) = 1 THEN elems[1]
  ELSE elems[1] \o <<sep>> \o StringsJoin(Tail(elems), sep)

\* The ".." case of filepath.Clean backs out.w up to the last separator.
RECURSIVE BackTo(_, _, _)
BackTo(out, w, dotdot) ==
  IF w > dotdot /\ out[w + 1] # Separator THEN BackTo(out, w - 1, dotdot)
  ELSE SubSeq(out, 1, w)

\* Where the path element that begins at r ends: the next separator or n + 1.
RECURSIVE ElementEnd(_, _)
ElementEnd(path, r) ==
  IF r > Len(path) \/ path[r] = Separator THEN r ELSE ElementEnd(path, r + 1)

\* The loop of filepath.Clean: r is the next character to read (from 1), out
\* the output so far, dotdot the length out may not be backed below.
RECURSIVE CleanLoop(_, _, _, _, _)
CleanLoop(path, rooted, r, out, dotdot) ==
  LET n == Len(path) IN
  IF r > n THEN out
  ELSE IF path[r] = Separator THEN CleanLoop(path, rooted, r + 1, out, dotdot)
  ELSE IF path[r] = "." /\ (r = n \/ path[r + 1] = Separator)
    THEN CleanLoop(path, rooted, r + 1, out, dotdot)
  ELSE IF path[r] = "." /\ path[r + 1] = "." /\ (r + 1 = n \/ path[r + 2] = Separator)
    THEN IF Len(out) > dotdot
           THEN CleanLoop(path, rooted, r + 2, BackTo(out, Len(out) - 1, dotdot), dotdot)
         ELSE IF ~rooted
           THEN LET o2 == (IF Len(out) > 0 THEN Append(out, Separator) ELSE out)
                            \o <<".", ".">>
                IN  CleanLoop(path, rooted, r + 2, o2, Len(o2))
         ELSE CleanLoop(path, rooted, r + 2, out, dotdot)
  ELSE LET o1 == IF (rooted /\ Len(out) # 1) \/ (~rooted /\ Len(out) # 0)
                   THEN Append(out, Separator) ELSE out
           e == ElementEnd(path, r)
       IN  CleanLoop(path, rooted, e, o1 \o SubSeq(path, r, e - 1), dotdot)

\* filepath.Clean where the separator is "/" and there are no volume names.
Clean(path) ==
  IF path = <<>> THEN <<".">>
  ELSE LET rooted == path[1] = Separator
           out == CleanLoop(path, rooted, IF rooted THEN 2 ELSE 1,
                            IF rooted THEN <<Separator>> ELSE <<>>,
                            IF rooted THEN 1 ELSE 0)
       IN  IF out = <<>> THEN <<".">> ELSE out

\* Join(fs, elem...), sep being string(fs.PathSeparator()): from the first
\* element that is not empty on, the elements joined by sep and cleaned.
Join(sep, elems) ==
  IF \A i \in DOMAIN elems : elems[i] = <<>> THEN <<>>
  ELSE LET i == CHOOSE k \in DOMAIN elems :
                  elems[k] # <<>> /\ \A j \in 1..(k - 1) : elems[j] = <<>>
       IN  Clean(StringsJoin(SubSeq(elems, i, Len(elems)), sep))

\* ------------------------------------------------------------------ Init
\* Walk(root): the Walker is built, the producer goroutine has not run yet.
Init ==
  /\ fsys \in FileSystems
  /\ retch = <<>>
  /\ closed = FALSE
  /\ cur = ZeroItem
  /\ ok = FALSE
  /\ ret = NilErr
  /\ cpc = "idle"
  /\ ppc = "start"
  /\ pitem = ZeroItem
  /\ stack = <<>>
  /\ delivered = <<>>
  /\ held = ZeroItem
  /\ stops = 0
  /\ stepStops = 0
  /\ prevPath = <<>>
  /\ lastSent = "none"
  /\ lastRes = "none"
  /\ everFalse = FALSE
  /\ asked = <<>>
  /\ skipFor = <<>>
  /\ skips = {}
  /\ dropped = 0
  /\ falseAgain = FALSE
  /\ taken = <<>>
  /\ closes = 0
  /\ lastCtl = "none"
  /\ ctlStop = FALSE
  /\ stopMark = [n |-> 0, node |-> <<>>]
  /\ concStop = FALSE
  /\ elem = <<>>
  /\ joined = <<>>
  /\ jpc = "idle"
  /\ pathsep = Separator

\* A panic of the caller's goroutine ends the process: nothing runs after it.
Running == cpc # "panic"

\* ------------------------------------------------------------- producer
\* Mutant of MakeItem: the error of the visit is left out of the item.
MakeItemNoErr(path, info, err) == [path |-> path, info |-> info, err |-> NilErr]

\* item{path, info, err}: what recv sends on itemch for the callback's arguments.
MakeItem(path, info, err) == [path |-> path, info |-> info, err |-> err]

\* recv is entered with the arguments a: it is about to send their item.
Callback(a) == MakeItem(a.path, a.info, a.err)

\* filepath.Walk(root, w.recv) begins: lstat of the root, first callback.
WalkStart ==
  /\ Running
  /\ ppc = "start"
  /\ ppc' = "send"
  /\ pitem' = Callback(WalkItem(fsys, Root))
  /\ stack' = <<>>
  /\ UNCHANGED <<fsys, retch, closed, walkerVars, cpc, historyVars, joinVars>>

\* Mutant of RecvDirective: recv receives the directive and returns nil
\* whatever it is.
RecvDirectiveReturnsNil ==
  /\ Running
  /\ ppc = "wait"
  /\ retch # <<>>
  /\ LET nx == AfterDirective(fsys, pitem, stack, NilErr)
     IN  /\ ppc' = nx.pc
         /\ pitem' = IF nx.pc = "send" THEN Callback(nx.item) ELSE ZeroItem
         /\ stack' = nx.stack
  /\ retch' = Tail(retch)
  /\ taken' = Append(taken, [path |-> pitem.path, e |-> Head(retch)])
  /\ UNCHANGED <<fsys, closed, walkerVars, cpc,
                 delivered, held, stops, stepStops, prevPath, lastSent, lastRes,
                 everFalse, asked, skipFor, skips, dropped, falseAgain,
                 closes, lastCtl, ctlStop, stopMark, concStop, joinVars>>

\* Mutant of RecvDirective: recv returns nil without receiving from w.retch.
RecvDirectiveNoWait ==
  /\ Running
  /\ ppc = "wait"
  /\ LET nx == AfterDirective(fsys, pitem, stack, NilErr)
     IN  /\ ppc' = nx.pc
         /\ pitem' = IF nx.pc = "send" THEN Callback(nx.item) ELSE ZeroItem
         /\ stack' = nx.stack
  /\ retch' = retch
  /\ taken' = taken
  /\ UNCHANGED <<fsys, closed, walkerVars, cpc,
                 delivered, held, stops, stepStops, prevPath, lastSent, lastRes,
                 everFalse, asked, skipFor, skips, dropped, falseAgain,
                 closes, lastCtl, ctlStop, stopMark, concStop, joinVars>>

\* return <-w.retch in recv, and the walk up to its next callback or its end.
RecvDirective ==
  /\ Running
  /\ ppc = "wait"
  /\ retch # <<>>
  /\ LET nx == AfterDirective(fsys, pitem, stack, Head(retch))
     IN  /\ ppc' = nx.pc
         /\ pitem' = IF nx.pc = "send" THEN Callback(nx.item) ELSE ZeroItem
         /\ stack' = nx.stack
  /\ retch' = Tail(retch)
  /\ taken' = Append(taken, [path |-> pitem.path, e |-> Head(retch)])
  /\ UNCHANGED <<fsys, closed, walkerVars, cpc,
                 delivered, held, stops, stepStops, prevPath, lastSent, lastRes,
                 everFalse, asked, skipFor, skips, dropped, falseAgain,
                 closes, lastCtl, ctlStop, stopMark, concStop, joinVars>>

\* Mutant of CloseItemch: itemch is closed while the traversal is still in
\* recv, waiting for a directive.
CloseItemchEarly ==
  /\ Running
  /\ ppc \in {"close", "wait"}
  /\ ~closed
  /\ closed' = TRUE
  /\ ppc' = IF ppc = "close" THEN "done" ELSE ppc
  /\ closes' = closes + 1
  /\ UNCHANGED <<fsys, retch, walkerVars, cpc, pitem, stack,
                 delivered, held, stops, stepStops, prevPath, lastSent, lastRes,
                 everFalse, asked, skipFor, skips, dropped, falseAgain,
                 taken, lastCtl, ctlStop, stopMark, concStop, joinVars>>

\* close(w.itemch) once filepath.Walk has returned.
CloseItemch ==
  /\ Running
  /\ ppc = "close"
  /\ closed' = TRUE
  /\ ppc' = "done"
  /\ closes' = closes + 1
  /\ UNCHANGED <<fsys, retch, walkerVars, cpc, pitem, stack,
                 delivered, held, stops, stepStops, prevPath, lastSent, lastRes,
                 everFalse, asked, skipFor, skips, dropped, falseAgain,
                 taken, lastCtl, ctlStop, stopMark, concStop, joinVars>>

\* --------------------------------------------------------------- caller
\* Mutant of StepCall: the test of w.ok is missing, Step always sends w.ret.
StepCallAlwaysSends ==
  /\ cpc = "idle"
  /\ cpc' = "send"
  /\ stepStops' = stops
  /\ prevPath' = cur.path
  /\ lastSent' = "none"
  /\ skipFor' = asked
  /\ skips' = IF asked = <<>> THEN skips ELSE skips \cup {asked}
  /\ UNCHANGED <<fsys, retch, closed, walkerVars, producerVars,
                 delivered, held, stops, lastRes, everFalse, asked, dropped,
                 falseAgain, taken, closes, lastCtl, ctlStop, stopMark,
                 concStop, joinVars>>

\* Mutant of StepCall: Step never sends w.ret, it goes straight to receive.
StepCallNeverSends ==
  /\ cpc = "idle"
  /\ cpc' = "recv"
  /\ stepStops' = stops
  /\ prevPath' = cur.path
  /\ lastSent' = "none"
  /\ skipFor' = asked
  /\ skips' = IF asked = <<>> THEN skips ELSE skips \cup {asked}
  /\ UNCHANGED <<fsys, retch, closed, walkerVars, producerVars,
                 delivered, held, stops, lastRes, everFalse, asked, dropped,
                 falseAgain, taken, closes, lastCtl, ctlStop, stopMark,
                 concStop, joinVars>>

\* Step is called: if w.ok it goes to send w.ret, else straight to receive.
StepCall ==
  /\ cpc = "idle"
  /\ cpc' = IF ok THEN "send" ELSE "recv"
  /\ stepStops' = stops
  /\ prevPath' = cur.path
  /\ lastSent' = "none"
  /\ skipFor' = asked
  /\ skips' = IF asked = <<>> THEN skips ELSE skips \cup {asked}
  /\ UNCHANGED <<fsys, retch, closed, walkerVars, producerVars,
                 delivered, held, stops, lastRes, everFalse, asked, dropped,
                 falseAgain, taken, closes, lastCtl, ctlStop, stopMark,
                 concStop, joinVars>>

\* w.retch <- w.ret: blocks while the buffer is full.
StepSend ==
  /\ cpc = "send"
  /\ Len(retch) < RetchCap
  /\ retch' = Append(retch, ret)
  /\ cpc' = "recv"
  /\ lastSent' = ret
  /\ UNCHANGED <<fsys, closed, walkerVars, producerVars,
                 delivered, held, stops, stepStops, prevPath, lastRes, everFalse,
                 asked, skipFor, skips, dropped, falseAgain,
                 taken, closes, lastCtl, ctlStop, stopMark, concStop, joinVars>>

\* Mutant of StepRecvItem: w.ret = nil is missing after the receive.
StepRecvItemKeepsRet ==
  /\ cpc = "recv"
  /\ ppc = "send"
  /\ cur' = pitem
  /\ ok' = TRUE
  /\ ret' = ret
  /\ cpc' = "idle"
  /\ ppc' = "wait"
  /\ delivered' = Append(delivered, cur'.path)
  /\ held' = cur'
  /\ lastRes' = "true"
  /\ asked' = <<>>
  /\ lastCtl' = "none"
  /\ ctlStop' = FALSE
  /\ UNCHANGED <<fsys, retch, closed, pitem, stack,
                 stops, stepStops, prevPath, lastSent, everFalse,
                 skipFor, skips, dropped, falseAgain,
                 taken, closes, stopMark, concStop, joinVars>>

\* w.cur, w.ok = <-w.itemch meets w.itemch <- item{path, info, err} of recv;
\* then w.ret = nil and Step returns true.
StepRecvItem ==
  /\ cpc = "recv"
  /\ ppc = "send"
  /\ cur' = pitem
  /\ ok' = TRUE
  /\ ret' = NilErr
  /\ cpc' = "idle"
  /\ ppc' = "wait"
  /\ delivered' = Append(delivered, cur'.path)
  /\ held' = cur'
  /\ lastRes' = "true"
  /\ asked' = <<>>
  /\ lastCtl' = "none"
  /\ ctlStop' = FALSE
  /\ UNCHANGED <<fsys, retch, closed, pitem, stack,
                 stops, stepStops, prevPath, lastSent, everFalse,
                 skipFor, skips, dropped, falseAgain,
                 taken, closes, stopMark, concStop, joinVars>>

\* Mutant of StepRecvClosed: the receive does not wait, it yields the zero
\* item and false whenever no item is on offer.
StepRecvClosedNoWait ==
  /\ cpc = "recv"
  /\ ppc # "send"
  /\ cur' = ZeroItem
  /\ ok' = FALSE
  /\ ret' = NilErr
  /\ cpc' = "idle"
  /\ lastRes' = "false"
  /\ everFalse' = TRUE
  /\ asked' = <<>>
  /\ falseAgain' = everFalse
  /\ lastCtl' = "none"
  /\ ctlStop' = FALSE
  /\ UNCHANGED <<fsys, retch, closed, producerVars,
                 delivered, held, stops, stepStops, prevPath, lastSent,
                 skipFor, skips, dropped,
                 taken, closes, stopMark, concStop, joinVars>>

\* Mutant of StepRecvClosed: only w.ok is received, w.cur keeps the last item.
StepRecvClosedKeepsCur ==
  /\ cpc = "recv"
  /\ closed
  /\ cur' = cur
  /\ ok' = FALSE
  /\ ret' = NilErr
  /\ cpc' = "idle"
  /\ lastRes' = "false"
  /\ everFalse' = TRUE
  /\ asked' = <<>>
  /\ falseAgain' = everFalse
  /\ lastCtl' = "none"
  /\ ctlStop' = FALSE
  /\ UNCHANGED <<fsys, retch, closed, producerVars,
                 delivered, held, stops, stepStops, prevPath, lastSent,
                 skipFor, skips, dropped,
                 taken, closes, stopMark, concStop, joinVars>>

\* w.cur, w.ok = <-w.itemch on the closed channel: the zero item and false;
\* then w.ret = nil and Step returns false.
StepRecvClosed ==
  /\ cpc = "recv"
  /\ closed
  /\ cur' = ZeroItem
  /\ ok' = FALSE
  /\ ret' = NilErr
  /\ cpc' = "idle"
  /\ lastRes' = "false"
  /\ everFalse' = TRUE
  /\ asked' = <<>>
  /\ falseAgain' = everFalse
  /\ lastCtl' = "none"
  /\ ctlStop' = FALSE
  /\ UNCHANGED <<fsys, retch, closed, producerVars,
                 delivered, held, stops, stepStops, prevPath, lastSent,
                 skipFor, skips, dropped,
                 taken, closes, stopMark, concStop, joinVars>>

\* Mutant of SkipDir: the skip is sent on w.retch at once when there is room.
SkipDirSendsNow ==
  /\ cpc = "idle"
  /\ IF ok /\ cur.info = NilInfo THEN cpc' = "panic" ELSE cpc' = cpc
  /\ ret' = ret
  /\ retch' = IF ok /\ cur.info = "dir" /\ Len(retch) < RetchCap
                THEN Append(retch, SkipDirErr) ELSE retch
  /\ asked' = IF ok /\ cur.info = "dir" THEN cur.path ELSE asked
  /\ lastCtl' = IF ok /\ cur.info = "dir" THEN "SkipDir" ELSE lastCtl
  /\ UNCHANGED <<fsys, closed, cur, ok, producerVars,
                 delivered, held, stops, stepStops, prevPath, lastSent, lastRes,
                 everFalse, skipFor, skips, dropped, falseAgain,
                 taken, closes, ctlStop, stopMark, concStop, joinVars>>

\* Mutant of SkipDir: the call is noted but w.ret is not set.
SkipDirForgetsRet ==
  /\ cpc = "idle"
  /\ IF ok /\ cur.info = NilInfo THEN cpc' = "panic" ELSE cpc' = cpc
  /\ ret' = ret
  /\ asked' = IF ok /\ cur.info = "dir" THEN cur.path ELSE asked
  /\ lastCtl' = IF ok /\ cur.info = "dir" THEN "SkipDir" ELSE lastCtl
  /\ UNCHANGED <<fsys, retch, closed, cur, ok, producerVars,
                 delivered, held, stops, stepStops, prevPath, lastSent, lastRes,
                 everFalse, skipFor, skips, dropped, falseAgain,
                 taken, closes, ctlStop, stopMark, concStop, joinVars>>

\* SkipDir: w.ok && w.cur.info.IsDir() sets w.ret; IsDir on the nil info of
\* a node whose lstat failed is a nil dereference, which panics.
SkipDir ==
  /\ cpc = "idle"
  /\ IF ok /\ cur.info = NilInfo
       THEN cpc' = "panic" /\ ret' = ret
       ELSE /\ cpc' = cpc
            /\ ret' = IF ok /\ cur.info = "dir" THEN SkipDirErr ELSE ret
  /\ asked' = IF ok /\ cur.info = "dir" THEN cur.path ELSE asked
  /\ lastCtl' = IF ok /\ cur.info = "dir" THEN "SkipDir" ELSE lastCtl
  /\ UNCHANGED <<fsys, retch, closed, cur, ok, producerVars,
                 delivered, held, stops, stepStops, prevPath, lastSent, lastRes,
                 everFalse, skipFor, skips, dropped, falseAgain,
                 taken, closes, ctlStop, stopMark, concStop, joinVars>>

\* Mutant of Stop: the stop is left in w.ret for the next Step to send, the
\* way SkipDir leaves its directive.
StopSetsRet ==
  /\ Running
  /\ stops < MaxStops
  /\ ret' = StopErr
  /\ stops' = stops + 1
  /\ lastCtl' = IF cpc = "idle" THEN "Stop" ELSE lastCtl
  /\ ctlStop' = (ctlStop \/ cpc = "idle")
  /\ stopMark' = IF stops > 0 THEN stopMark
                 ELSE [n |-> Len(delivered),
                       node |-> IF ppc = "start" THEN Root ELSE pitem.path]
  /\ concStop' = (concStop \/ cpc # "idle")
  /\ UNCHANGED <<fsys, retch, closed, cur, ok, cpc, producerVars,
                 delivered, held, stepStops, prevPath, lastSent, lastRes,
                 everFalse, asked, skipFor, skips, dropped, falseAgain,
                 taken, closes, joinVars>>

\* Mutant of Stop: a plain send, w.retch <- errors.New("stop"), no default.
StopBlockingSend ==
  /\ Running
  /\ stops < MaxStops
  /\ Len(retch) < RetchCap
  /\ retch' = Append(retch, StopErr)
  /\ stops' = stops + 1
  /\ dropped' = dropped
  /\ lastCtl' = IF cpc = "idle" THEN "Stop" ELSE lastCtl
  /\ ctlStop' = (ctlStop \/ cpc = "idle")
  /\ stopMark' = IF stops > 0 THEN stopMark
                 ELSE [n |-> Len(delivered),
                       node |-> IF ppc = "start" THEN Root ELSE pitem.path]
  /\ concStop' = (concStop \/ cpc # "idle")
  /\ UNCHANGED <<fsys, closed, walkerVars, cpc, producerVars,
                 delivered, held, stepStops, prevPath, lastSent, lastRes,
                 everFalse, asked, skipFor, skips, falseAgain,
                 taken, closes, joinVars>>

\* Stop: select { case w.retch <- errors.New("stop"): default: }, from the
\* caller's goroutine or from another one while Step is in flight.
Stop ==
  /\ Running
  /\ stops < MaxStops
  /\ retch' = IF Len(retch) < RetchCap THEN Append(retch, StopErr) ELSE retch
  /\ stops' = stops + 1
  /\ dropped' = IF Len(retch) < RetchCap THEN dropped ELSE dropped + 1
  /\ lastCtl' = IF cpc = "idle" THEN "Stop" ELSE lastCtl
  /\ ctlStop' = (ctlStop \/ cpc = "idle")
  /\ stopMark' = IF stops > 0 THEN stopMark
                 ELSE [n |-> Len(delivered),
                       node |-> IF ppc = "start" THEN Root ELSE pitem.path]
  /\ concStop' = (concStop \/ cpc # "idle")
  /\ UNCHANGED <<fsys, closed, walkerVars, cpc, producerVars,
                 delivered, held, stepStops, prevPath, lastSent, lastRes,
                 everFalse, asked, skipFor, skips, falseAgain,
                 taken, closes, joinVars>>

\* Path, Stat, Err: the fields of w.cur.
Path == cur.path
Stat == cur.info
Err == cur.err

\* A call of Path, of Stat, of Err by the caller between its other calls:
\* each returns its field of w.cur and assigns nothing.
PathCall == cpc = "idle" /\ UNCHANGED vars
StatCall == cpc = "idle" /\ UNCHANGED vars
ErrCall == cpc = "idle" /\ UNCHANGED vars

ProducerNext == WalkStart \/ RecvDirective \/ CloseItemch

StepNext == StepSend \/ StepRecvItem \/ StepRecvClosed

Next ==
  \/ WalkStart
  \/ RecvDirective
  \/ CloseItemch
  \/ StepCall
  \/ StepSend
  \/ StepRecvItem
  \/ StepRecvClosed
  \/ SkipDir
  \/ Stop
  \/ PathCall
  \/ StatCall
  \/ ErrCall

Spec == Init /\ [][Next]_vars

\* --------------------------------------------- a walk that is never stopped
\* One goroutine calls Step and SkipDir, nobody calls Stop.  The Go scheduler
\* runs a goroutine that can run: the producer takes its next step when it
\* has one, and so does a Step call that is in flight.
NoStopNext ==
  \/ WalkStart
  \/ RecvDirective
  \/ CloseItemch
  \/ StepCall
  \/ StepSend
  \/ StepRecvItem
  \/ StepRecvClosed
  \/ SkipDir

NoStopSpec ==
  Init /\ [][NoStopNext]_vars /\ WF_vars(ProducerNext) /\ WF_vars(StepNext)

\* --------------------------------------------------- Join, called by itself
\* No Walk is going on: the Walker variables keep the values of a Walker
\* that was never built.
NoWalk ==
  /\ fsys = [kind |-> [p \in {Root} |-> "file"], lstatFail |-> {}, readFail |-> {}]
  /\ retch = <<>> /\ closed = FALSE /\ cur = ZeroItem /\ ok = FALSE /\ ret = NilErr
  /\ cpc = "idle" /\ ppc = "start" /\ pitem = ZeroItem /\ stack = <<>>
  /\ delivered = <<>> /\ held = ZeroItem /\ stops = 0 /\ stepStops = 0
  /\ prevPath = <<>> /\ lastSent = "none" /\ lastRes = "none"
  /\ everFalse = FALSE /\ asked = <<>> /\ skipFor = <<>> /\ skips = {}
  /\ dropped = 0 /\ falseAgain = FALSE /\ taken = <<>> /\ closes = 0
  /\ lastCtl = "none" /\ ctlStop = FALSE
  /\ stopMark = [n |-> 0, node |-> <<>>] /\ concStop = FALSE

\* A call of Join with any argument list, on a FileSystem with any separator.
JoinInit ==
  /\ NoWalk
  /\ elem \in ElemLists
  /\ pathsep \in PathSeparators
  /\ joined = <<>>
  /\ jpc = "call"

\* The call returns.
JoinCall ==
  /\ jpc = "call"
  /\ joined' = Join(pathsep, elem)
  /\ jpc' = "done"
  /\ UNCHANGED <<fsys, retch, closed, walkerVars, cpc, producerVars,
                 historyVars, elem, pathsep>>

JoinNext == JoinCall

JoinSpec == JoinInit /\ [][JoinNext]_vars

\* ================================================================ claims

\* C1 (stop efficacy): every Step call that starts after a call of Stop
\* returns false: no Step that returned true had started with Stop already
\* called.
C1_StepAfterStopIsFalse ==
  (cpc = "idle" /\ stepStops > 0) => lastRes # "true"

\* C2 (idempotent stop without deadlock): a Step call that started after one
\* or more calls of Stop is never blocked for good: it can make its next
\* move, or the producer can still make one.
C2_StepNeverStuckAfterStop ==
  (stepStops > 0 /\ cpc \in {"send", "recv"}) => ENABLED (StepNext \/ ProducerNext)

\* C3 (no producer leak after stop): when Stop has been called and the caller
\* has started no Step since (and is in none), the producer has finished or
\* can still move on its own towards closing itemch.
C3_ProducerEndsAfterStop ==
  (stops > 0 /\ stepStops = 0 /\ cpc = "idle") =>
     (ppc = "done" \/ ENABLED ProducerNext)

\* ------------------------------------------------ reference definitions
\* The tree as a mathematical object, to state the claims against; none of
\* this is read by the actions.
IsPrefix(p, q) == Len(p) <= Len(q) /\ SubSeq(q, 1, Len(p)) = p
Below(q, p) == IsPrefix(p, q) /\ p # q
Nodes(fs) == DOMAIN fs.kind
Failing(fs) == fs.lstatFail \cup fs.readFail
Range(sq) == {sq[i] : i \in DOMAIN sq}
Siblings(fs, p) ==
  {q \in Nodes(fs) : Len(q) = Len(p) /\ q # p
                     /\ SubSeq(q, 1, Len(q) - 1) = SubSeq(p, 1, Len(p) - 1)}

\* p comes before q in the pre-order listing with siblings in name order.
Before(p, q) ==
  /\ p # q
  /\ \/ IsPrefix(p, q)
     \/ \E i \in 1..Len(p) :
          /\ i <= Len(q)
          /\ \A j \in 1..(i - 1) : p[j] = q[j]
          /\ p[i] < q[i]

RECURSIVE InOrder(_)
InOrder(S) ==
  IF S = {} THEN <<>>
  ELSE LET m == CHOOSE p \in S : \A q \in S \ {p} : Before(p, q)
       IN  <<m>> \o InOrder(S \ {m})

\* A walk goes below p: p is a directory, its visit did not fail and it is
\* not pruned.
Opens(fs, p, pruned) ==
  fs.kind[p] = "dir" /\ p \notin Failing(fs) /\ p \notin pruned

\* The nodes all of whose proper ancestors are gone below.
Visible(fs, pruned) ==
  {q \in Nodes(fs) : \A p \in Nodes(fs) : Below(q, p) => Opens(fs, p, pruned)}

\* The nodes after the subtree of d in pre-order.
AfterSubtree(fs, d) == {q \in Nodes(fs) : Before(d, q) /\ ~IsPrefix(d, q)}

IsPrefixSeq(a, b) == Len(a) <= Len(b) /\ SubSeq(b, 1, Len(a)) = a

\* C4 (Stop is non-blocking): in every state of the running program, with
\* the directive slot empty or full and whatever the caller's Step and the
\* producer are doing, a call of Stop can take its one step.
C4_StopNeverBlocks ==
  (Running /\ stops < MaxStops) => ENABLED Stop

\* Witness of C4: a Stop has completed although it found the slot full
\* while a Step was in flight, and the slot is full again or still.
C4_Witness ==
  dropped > 0 /\ cpc = "recv" /\ Len(retch) = RetchCap /\ ppc = "wait"

\* C5 as stated: after a full drain with no SkipDir and no Stop, the
\* delivered paths are the pre-order, name-ordered listing of all N nodes
\* of the tree.
C5_DrainListsWholeTree ==
  (stops = 0 /\ skips = {} /\ everFalse) => delivered = InOrder(Nodes(fsys))

\* C5 as amended: with no SkipDir and no Stop the delivered paths are at all
\* times an initial part of the pre-order, name-ordered listing of the nodes
\* that do not lie below a node whose visit failed, starting with the root,
\* and after the drain they are that whole listing, each node once.
C5_DrainListsReadableTree ==
  (stops = 0 /\ skips = {}) =>
     /\ IsPrefixSeq(delivered, InOrder(Visible(fsys, {})))
     /\ delivered # <<>> => delivered[1] = Root
     /\ everFalse => /\ delivered = InOrder(Visible(fsys, {}))
                     /\ Cardinality(Range(delivered)) = Len(delivered)
                     /\ Len(delivered) = Cardinality(Visible(fsys, {}))

\* Witness of C5: a drained walk of a tree with a directory, its child and
\* two more nodes in unsorted need of ordering.
C5_Witness ==
  /\ stops = 0 /\ skips = {} /\ everFalse /\ cpc = "idle"
  /\ delivered = <<Root, <<0, 1>>, <<0, 1, 1>>, <<0, 2>>>>

\* C6 (skip-subtree efficacy): no node below a directory that SkipDir was
\* called on before a Step is ever delivered; and, no Stop being called, the
\* Step after SkipDir on the directory D yields the first node after D's
\* subtree in pre-order, or false when there is none.
C6_SkipDirPrunesSubtree ==
  /\ \A d \in skips : \A i \in DOMAIN delivered : ~Below(delivered[i], d)
  /\ (stops = 0 /\ cpc = "idle" /\ skipFor # <<>>) =>
        IF AfterSubtree(fsys, skipFor) = {}
          THEN lastRes = "false" /\ ~ok
          ELSE /\ lastRes = "true" /\ ok
               /\ Path = InOrder(AfterSubtree(fsys, skipFor))[1]

\* Witness of C6: SkipDir on a readable directory with a child, then Step
\* delivered its next sibling.
C6_Witness ==
  /\ stops = 0 /\ cpc = "idle" /\ skipFor = <<0, 1>> /\ ok
  /\ <<0, 1, 1>> \in Visible(fsys, {})
  /\ Path = <<0, 2>>

\* C7 (SkipDir off a directory has no effect): a call of SkipDir made when
\* the Walker is not on a directory (before the first Step, after the end,
\* on a file, on an entry with an error and no info) returns normally and
\* changes nothing: the pending directive stays nil, so the next Step does
\* what it would have done.
C7_SkipDirOffDirectoryNoEffect ==
  [][(SkipDir /\ ~(ok /\ cur.info = "dir")) =>
        /\ cpc' = "idle"
        /\ ret = NilErr /\ ret' = NilErr
        /\ UNCHANGED <<cur, ok, retch, closed, ppc, pitem, stack>>]_vars

\* C8 (exhaustion finality): once a Step call has returned false, the last
\* Step call to return has returned false, and a Step call in flight is not
\* blocked.
C8_ExhaustionIsFinal ==
  everFalse => /\ lastRes = "false"
               /\ cpc # "idle" => ENABLED StepNext

\* Witness of C8: Step returned false a second time, with Stop called.
C8_Witness ==
  falseAgain /\ cpc = "idle" /\ stops > 0 /\ stepStops > 0

\* C9 (per-node errors are data): a node whose visit failed is current with
\* its error after a Step that returned true; nothing below a failed node is
\* delivered; and with no Stop, Step returns false only when every node not
\* below a failed or skipped directory has been delivered, the failed nodes
\* and their siblings among them.
C9_NodeErrorsAreData ==
  /\ ok => /\ lastRes = "true"
           /\ Err = (IF Path \in Failing(fsys) THEN NodeErr ELSE NilErr)
  /\ \A i \in DOMAIN delivered :
        \A f \in Failing(fsys) : ~Below(delivered[i], f)
  /\ (stops = 0 /\ everFalse) =>
        /\ Range(delivered) = Visible(fsys, skips)
        /\ \A f \in Failing(fsys) \cap Visible(fsys, skips) :
              {f} \cup Siblings(fsys, f) \subseteq Range(delivered)

\* Witness of C9: a drained walk in which a directory that holds a child
\* failed to be read, was delivered with its error, and its later sibling
\* was delivered after it.
C9_Witness ==
  /\ stops = 0 /\ everFalse /\ skips = {} /\ cpc = "idle"
  /\ fsys.readFail = {<<0, 1>>} /\ <<0, 1, 1>> \in Nodes(fsys)
  /\ delivered = <<Root, <<0, 1>>, <<0, 2>>>>

NonEmpty(elems) == SelectSeq(elems, LAMBDA e : e # <<>>)

AllEmpty(elems) == \A i \in DOMAIN elems : elems[i] = <<>>

\* No separator sep is doubled in path, and none ends it unless path is
\* the root.
SingleSeparators(path, sep) ==
  /\ \A i \in 1..(Len(path) - 1) : ~(path[i] = sep /\ path[i + 1] = sep)
  /\ (path # <<>> /\ path[Len(path)] = sep) => path = <<sep>>

\* What the documented examples of Join expect.
JoinExamples ==
  /\ Join(Separator, <<>>) = <<>>
  /\ Join(Separator, << <<>> >>) = <<>>
  /\ Join(Separator, << <<"a">>, <<"b">> >>) = <<"a", "/", "b">>
  /\ Join(Separator, << <<"a">>, <<>> >>) = <<"a">>
  /\ Join(Separator, << <<>>, <<"b">> >>) = <<"b">>
  /\ Join(Separator, << <<"/">>, <<"a">> >>) = <<"/", "a">>
  /\ Join(Separator, << <<"/">>, <<>> >>) = <<"/">>
  /\ Join(Separator, << <<"a", "/">>, <<"b">> >>) = <<"a", "/", "b">>
  /\ Join(Separator, << <<"a", "/">>, <<>> >>) = <<"a">>

\* C11 (Join ignores empty elements): a call of Join has returned "" when
\* every element is empty, and else the cleaned path that Join returns for
\* the list without its empty elements, in which no separator of the
\* FileSystem is doubled and none is trailing except in the root.
C11_JoinIgnoresEmptyElements ==
  jpc = "done" =>
     /\ AllEmpty(elem) => joined = <<>>
     /\ ~AllEmpty(elem) =>
           /\ joined = Join(pathsep, NonEmpty(elem))
           /\ SingleSeparators(joined, pathsep)

\* The same for a FileSystem whose separator is the one of the os package.
C11_OsSeparatorOnly ==
  (jpc = "done" /\ pathsep = Separator) =>
     /\ JoinExamples
     /\ AllEmpty(elem) => joined = <<>>
     /\ ~AllEmpty(elem) =>
           /\ joined = Join(pathsep, NonEmpty(elem))
           /\ SingleSeparators(joined, pathsep)

\* --------------------------------------------------------------- C12..C20
\* C12 (strict alternation, no look-ahead): the producer has sent as many
\* entries as it has received directives, or one more; the i-th directive
\* it received is the one for the i-th entry it sent; while it offers an
\* entry every earlier one has its directive; and from the delivery of an
\* entry until its directive is received the producer stays where it is,
\* on that entry, and sends nothing.
C12_StrictAlternation ==
  /\ [](/\ Len(taken) <= Len(delivered)
        /\ Len(delivered) <= Len(taken) + 1
        /\ \A i \in DOMAIN taken : taken[i].path = delivered[i]
        /\ ppc = "send" => Len(delivered) = Len(taken)
        /\ ppc = "wait" => /\ Len(delivered) = Len(taken) + 1
                           /\ pitem = held
                           /\ pitem.path = delivered[Len(delivered)])
  /\ [][(ppc = "wait" /\ taken' = taken) =>
           UNCHANGED <<ppc, pitem, stack, delivered>>]_vars

\* Witness of C12: the third entry is delivered, its directive is in the
\* slot and the producer has not received it yet.
C12_Witness ==
  /\ ppc = "wait" /\ Len(delivered) = 3 /\ Len(taken) = 2
  /\ retch # <<>> /\ cpc = "recv"

\* SkipDir (on a directory) and Stop have both been called since the last
\* Step returned, and the producer has received the directive for the entry
\* that Step delivered.
BothCalledAndActed ==
  asked # <<>> /\ ctlStop /\ taken # <<>> /\ Len(taken) = Len(delivered)

\* C13 as stated: the slot holds at most one directive, and when SkipDir
\* and Stop were both called between two Step calls the producer acts, for
\* the current entry, on the directive of the call that came last.
C13_LastControlCallDecides ==
  /\ Len(retch) <= 1
  /\ BothCalledAndActed =>
        taken[Len(taken)].e = (IF lastCtl = "Stop" THEN StopErr ELSE SkipDirErr)

\* C13 as amended: the slot holds at most one directive, and when SkipDir
\* and Stop were both called between two Step calls the producer acts, for
\* the current entry, on the stop, whichever call came last.
C13_StopDecides ==
  /\ Len(retch) <= 1
  /\ BothCalledAndActed => taken[Len(taken)].e = StopErr

\* Witness of C13: Stop, then SkipDir on the current directory, then Step,
\* which has sent the skip; the producer had acted on the stop.
C13_Witness ==
  /\ BothCalledAndActed /\ lastCtl = "SkipDir"
  /\ cpc = "recv" /\ lastSent = SkipDirErr /\ retch = <<SkipDirErr>>
  /\ taken[Len(taken)].e = StopErr

\* C14 (first posted stop wins): a call of Stop is dropped, its stop not
\* put into the directive slot, only when the slot holds an earlier stop;
\* so a Stop made while no stop is pending is not lost, also when a Step in
\* flight has posted its own directive.
C14_StopDroppedOnlyBehindStop ==
  [][(Stop /\ dropped' > dropped) => (retch # <<>> /\ Head(retch) = StopErr)]_vars

\* C15 (a skip request applies to exactly one entry): SkipDir moves neither
\* a channel nor the producer; what a Step sends is the skip exactly when
\* SkipDir was called on the entry that was current when the Step began,
\* and then for that entry; after Step has returned the pending directive
\* is nil until SkipDir is called on a directory again; so the producer
\* receives a skip only for a directory SkipDir was called on, and nil for
\* any other entry.
C15_SkipAppliesToOneEntry ==
  /\ [][SkipDir => UNCHANGED <<retch, closed, ppc, pitem, stack, taken>>]_vars
  /\ [](/\ lastSent = SkipDirErr => (skipFor # <<>> /\ skipFor = prevPath)
        /\ (lastSent # "none" /\ skipFor # <<>>) => lastSent = SkipDirErr
        /\ (cpc = "idle" /\ asked = <<>>) => ret = NilErr
        /\ \A i \in DOMAIN taken :
              /\ taken[i].e = SkipDirErr => taken[i].path \in skips
              /\ taken[i].e = NilErr => taken[i].path \notin skips)

\* Witness of C15: SkipDir was called on the first of two directories only;
\* the second one, delivered later, was descended into.
C15_Witness ==
  /\ stops = 0 /\ everFalse /\ cpc = "idle" /\ skips = {<<0, 1>>}
  /\ delivered = <<Root, <<0, 1>>, <<0, 2>>, <<0, 2, 1>>>>
  /\ taken[2].e = SkipDirErr /\ taken[3].e = NilErr

\* C16 (end-of-sequence is signalled exactly once): itemch has been closed
\* at most once, and only with the traversal returned: the walk's stack is
\* empty and the producer is done, the tree being exhausted or the last
\* directive received a stop or a skip that ended it; and once itemch is
\* closed it stays closed, no further entry is sent and no further
\* directive is received.
C16_ClosedOnceAtTheEnd ==
  /\ [](/\ closes <= 1
        /\ closed <=> closes = 1
        /\ closed => /\ ppc = "done" /\ stack = <<>> /\ pitem = ZeroItem
                     /\ Len(taken) = Len(delivered))
  /\ [][closed => (closed' /\ UNCHANGED <<ppc, pitem, stack, delivered, taken, closes>>)]_vars

\* Witness of C16: itemch was closed after a stop, the Step that found the
\* end had sent its directive first, and that directive stays in the slot.
C16_Witness ==
  /\ closed /\ closes = 1 /\ ppc = "done"
  /\ stops > 0 /\ taken # <<>> /\ taken[Len(taken)].e = StopErr
  /\ everFalse /\ cpc = "idle" /\ retch = <<NilErr>>

\* C17 (only Step changes the current entry): a call of Path, Stat or Err
\* changes nothing of the Walker, its channels or the producer; a call of
\* SkipDir leaves the current entry, its validity flag, both channels and
\* the producer as they are; a call of Stop leaves the current entry, its
\* validity flag, the pending directive, the item channel and the
\* producer as they are.
C17_OnlyStepChangesCurrent ==
  /\ [][(PathCall \/ StatCall \/ ErrCall) =>
          UNCHANGED <<cur, ok, ret, retch, closed, cpc, ppc, pitem, stack>>]_vars
  /\ [][SkipDir => UNCHANGED <<cur, ok, retch, closed, ppc, pitem, stack>>]_vars
  /\ [][Stop => UNCHANGED <<cur, ok, ret, closed, cpc, ppc, pitem, stack>>]_vars

\* Witness of C17: SkipDir and then Stop were called on the current
\* directory, which is still the entry the last Step delivered; the skip
\* is pending and the stop is in the slot.
C17_Witness ==
  /\ cpc = "idle" /\ ok /\ cur = held /\ Path = delivered[Len(delivered)]
  /\ asked = Path /\ lastCtl = "Stop"
  /\ ret = SkipDirErr /\ retch = <<StopErr>>

InStep == cpc \in {"send", "recv"}

\* C18 (deadlock freedom without stop): with no call of Stop, while a Step
\* call is in flight the caller or the producer can move; every Step call
\* returns; no more Step calls return true than the tree has nodes; and
\* when Step is called again and again, a call returns false.
C18_NoDeadlockWithoutStop ==
  /\ [](InStep => ENABLED (StepNext \/ ProducerNext))
  /\ [](Len(delivered) <= Cardinality(Nodes(fsys)))
  /\ InStep ~> (cpc = "idle")
  /\ ([]<>InStep) => <>everFalse

\* Witness of C18: a tree of four nodes was walked to the end with a
\* SkipDir on the way, and Step has returned false twice.
C18_Witness ==
  /\ stops = 0 /\ falseAgain /\ cpc = "idle" /\ skips # {}
  /\ Cardinality(Nodes(fsys)) = 4 /\ Len(delivered) = 3

\* C19 (drained means finished): once a Step call has returned false the
\* producer has left the traversal and closed itemch: it is done, no step
\* of it is left to take, so it is not blocked on a channel, and it has
\* received a directive for every entry it sent.
C19_DrainedMeansFinished ==
  everFalse => /\ closed /\ ppc = "done"
               /\ ~ENABLED ProducerNext
               /\ Len(taken) = Len(delivered)

\* Witness of C19: Step has just returned false for the first time, on a
\* walk that delivered three entries and was not stopped.
C19_Witness ==
  /\ everFalse /\ ~falseAgain /\ cpc = "idle" /\ lastRes = "false"
  /\ stops = 0 /\ Len(delivered) = 3 /\ ppc = "done"

\* C20 (bounded overrun after stop): when no call of Stop was made with a
\* Step in flight, at most one entry is delivered after the first Stop,
\* and from that Stop on the producer sends, or waits on, no entry but the
\* one it had sent or was about to send when Stop was called.
C20_BoundedOverrunAfterStop ==
  (stops > 0 /\ ~concStop) =>
     /\ Len(delivered) <= stopMark.n + 1
     /\ \A i \in DOMAIN delivered : i > stopMark.n => delivered[i] = stopMark.node
     /\ ppc \in {"send", "wait"} => pitem.path = stopMark.node
     /\ \A i \in DOMAIN taken : i > stopMark.n => taken[i].path = stopMark.node

\* Witness of C20: Stop was called before the first Step on a tree of more
\* than two nodes; one Step returned true, for the root, the next false.
C20_Witness ==
  /\ stops > 0 /\ ~concStop /\ stopMark.n = 0 /\ stopMark.node = Root
  /\ delivered = <<Root>> /\ everFalse /\ cpc = "idle"
  /\ Cardinality(Nodes(fsys)) > 2

====
